---------------------------- MODULE Spec2Model ----------------------------
(***************************************************************************)
(* Model of src/App.tsx (bluesky-team-check): the lookup controller built  *)
(* from createSignal + createResource + makeAbortable, the resolve /       *)
(* batch-query / aggregate fetcher, the isFollowed selector and the two    *)
(* list utilities mapDefined and chunked.                                  *)
(*                                                                         *)
(* Strings are sequences of one-character strings, so that replace(/^@/)   *)
(* and startsWith('did:') are computed on the characters.  A member DID is *)
(* an opaque identifier, written as the member's index in the roster.      *)
(***************************************************************************)
EXTENDS Integers, Sequences, FiniteSets, TLC

VARIABLES
    members,     \* the roster (App.tsx:14), fixed for a run
    actor,       \* the actor signal (App.tsx:36)
    state,       \* resource.state
    latest,      \* resource.latest
    error,       \* resource.error
    resolved,    \* createResource: a load has completed before
    pr,          \* createResource: the promise of the load in progress (cycle id, 0 = none)
    controller,  \* makeAbortable: the current AbortController (token id, 0 = none)
    aborted,     \* the tokens whose abort() has been called
    cycles,      \* one record per fetcher invocation, in order of invocation
    lastSettled, \* the cycle whose fetcher promise settled most recently (0 = none)
    nsubmit,     \* number of submit events handled
    arr,         \* chunked: argument arr
    size,        \* chunked: argument size
    i,           \* chunked: loop index i
    chunks,      \* chunked: local chunks
    cpc          \* chunked: "idle" | "loop" | "return"

resVars   == <<state, latest, error, resolved, pr>>
ctlVars   == <<members, actor, state, latest, error, resolved, pr, controller,
               aborted, cycles, lastSettled, nsubmit>>
chunkVars == <<arr, size, i, chunks, cpc>>
vars      == <<members, actor, state, latest, error, resolved, pr, controller,
               aborted, cycles, lastSettled, nsubmit, arr, size, i, chunks, cpc>>

---------------------------------------------------------------------------
(* Bounds of the model *)

MaxSubmit == 2      \* submit events per run
MaxLen    == 4      \* chunked: longest argument sequence explored
MaxSize   == 3      \* chunked: largest chunk size explored

(* Program constant *)
BatchSize == 30     \* chunked(members, 30)

---------------------------------------------------------------------------
(* Strings *)

Undefined == <<"undefined">>          \* createSignal<string>() starts undefined
DidPrefix == <<"d", "i", "d", ":">>

\* String.prototype.replace(/^@/, '')
StripAt(s) == IF Len(s) > 0 /\ s[1] = "@" THEN Tail(s) ELSE s

\* String.prototype.startsWith('did:')
StartsWithDid(s) == Len(s) >= Len(DidPrefix) /\ SubSeq(s, 1, Len(DidPrefix)) = DidPrefix

\* What the visitor may type into the form
RawInputs ==
    { <<"a">>, <<"@", "a">>, <<"d", "i", "d", ":", "x">> }

\* What resolveHandle may answer
ResolvedDids == { <<"d", "i", "d", ":", "x">>, <<"d", "i", "d", ":", "y">> }

---------------------------------------------------------------------------
(* The list utilities *)

\* Array.prototype.slice(from, to) on 0-based indices
Slice(a, from, to) ==
    LET hi == IF to < Len(a) THEN to ELSE Len(a)
    IN  IF from >= hi THEN << >> ELSE SubSeq(a, from + 1, hi)

\* variant with an off-by-one end index: arr.slice(i, i + size - 1)
ChunkBodyShort(a, n, k) == Slice(a, k, k + n - 1)
\* the loop body of chunked: arr.slice(i, i + size)
ChunkBody(a, n, k) == Slice(a, k, k + n)

RECURSIVE ChunkedFrom(_, _, _)
ChunkedFrom(a, n, k) ==
    IF k < Len(a) THEN <<ChunkBody(a, n, k)>> \o ChunkedFrom(a, n, k + n) ELSE << >>

chunked(a, n) == ChunkedFrom(a, n, 0)

\* mapDefined(array, mapper): mapper is a function whose results are <<x>> (a
\* defined value x) or << >> (undefined)
mapDefined(array, mapper) ==
    LET mapped[idx \in 0..Len(array)] ==
            IF idx = 0 THEN << >> ELSE mapped[idx - 1] \o mapper[array[idx]]
    IN  mapped[Len(array)]

---------------------------------------------------------------------------
(* The remote API: records, responses, failures *)

Rel(d, f) == [type |-> "app.bsky.graph.defs#relationship", did |-> d, followedBy |-> f]
NotFound(d) == [type |-> "app.bsky.graph.defs#notFoundActor", did |-> d, followedBy |-> "absent"]

\* every record these answers are made of
Records ==
    { Rel(d, f) : d \in {1, 2, 31}, f \in {"true", "false", "absent"} }
        \cup { NotFound(d) : d \in {1, 2, 31} }

\* data.relationships of the getRelationships answers explored
Responses ==
    { <<NotFound(2), Rel(2, "true"), Rel(1, "absent"), Rel(1, "true")>>,
      <<Rel(31, "true"), Rel(2, "false")>> }

\* What a remote call may reject with; AbortError only once its signal is aborted
Failures(tok) == {"XRPCError", "TypeError"} \cup (IF tok \in aborted THEN {"AbortError"} ELSE {})

NoError == "undefined"
NoDid   == <<"undefined">>

\* The roster of n members: [did, handle]
Roster(n) == [k \in 1..n |-> <<k, "handle">>]
Rosters   == { Roster(16), Roster(45) }

---------------------------------------------------------------------------
(* The fetcher (App.tsx:38-76) *)

\* variant of the mapper without the followedBy test
KeepAll(relation) ==
    IF relation.type = "app.bsky.graph.defs#relationship" THEN <<relation.did>> ELSE << >>
\* the mapper of line 68-72
KeepFollowed(relation) ==
    IF relation.type = "app.bsky.graph.defs#relationship" /\ relation.followedBy = "true"
    THEN <<relation.did>> ELSE << >>

\* responses.flatMap(...) of line 67-73; responses is the sequence of data.relationships
Followed(responses) ==
    LET mapper == [relation \in Records |-> KeepFollowed(relation)]
        flat[k \in 0..Len(responses)] ==
            IF k = 0 THEN << >> ELSE flat[k - 1] \o mapDefined(responses[k], mapper)
    IN  flat[Len(responses)]

ResolveCall(handle, tok) ==
    [nsid |-> "com.atproto.identity.resolveHandle", signal |-> tok,
     actor |-> handle, others |-> << >>]

OthersOf(chunk) == [k \in 1..Len(chunk) |-> chunk[k][1]]

\* variant that queries the first chunk only
BatchCallsFirstOnly(did, tok) ==
    LET cs == chunked(members, BatchSize)
    IN  [k \in 1..1 |->
            [nsid |-> "app.bsky.graph.getRelationships", signal |-> tok,
             actor |-> did, others |-> OthersOf(cs[k])]]
\* chunked(members, 30).map(chunk => agent.rpc.get('app.bsky.graph.getRelationships', ...))
BatchCalls(did, tok) ==
    LET cs == chunked(members, BatchSize)
    IN  [k \in 1..Len(cs) |->
            [nsid |-> "app.bsky.graph.getRelationships", signal |-> tok,
             actor |-> did, others |-> OthersOf(cs[k])]]

InFlight == [st |-> "inflight", data |-> << >>, err |-> NoError]
NoOutcome == [kind |-> "none", value |-> << >>, err |-> NoError]

\* variant without the startsWith('did:') branch
FetcherStartAlwaysResolve(a, tok) ==
    [actor |-> a, signal |-> tok, pc |-> "resolve", did |-> NoDid,
     calls |-> <<ResolveCall(a, tok)>>, batches |-> << >>, arrived |-> << >>,
     outcome |-> NoOutcome]
\* the fetcher up to its first await, for source value a and a fresh signal tok
FetcherStart(a, tok) ==
    IF StartsWithDid(a)
    THEN LET bc == BatchCalls(a, tok)
         IN  [actor |-> a, signal |-> tok, pc |-> "all", did |-> a,
              calls |-> bc, batches |-> [k \in 1..Len(bc) |-> InFlight],
              arrived |-> << >>, outcome |-> NoOutcome]
    ELSE [actor |-> a, signal |-> tok, pc |-> "resolve", did |-> NoDid,
          calls |-> <<ResolveCall(a, tok)>>, batches |-> << >>, arrived |-> << >>,
          outcome |-> NoOutcome]

\* the fetcher from line 53 to the await of line 66, once resolveHandle answered d
AfterResolve(cy, d) ==
    LET bc == BatchCalls(d, cy.signal)
    IN  [cy EXCEPT !.pc = "all", !.did = d, !.calls = cy.calls \o bc,
                   !.batches = [k \in 1..Len(bc) |-> InFlight]]

\* variant that looks at the first promise only
AllOkFirst(bs) == bs[1].st = "ok"
\* Promise.all resolves when every promise has resolved
AllOk(bs) == \A k \in 1..Len(bs) : bs[k].st = "ok"
DataOf(bs) == [k \in 1..Len(bs) |-> bs[k].data]

---------------------------------------------------------------------------
(* makeAbortable (App.tsx:34) and createResource (App.tsx:38) *)

\* variant that leaves the previous controller as it is
SignalNoAbort(tok) ==
    /\ aborted' = aborted
    /\ controller' = tok
\* signal(): abort the previous controller if it is not aborted, make a new one
Signal(tok) ==
    /\ aborted' = IF controller # 0 /\ controller \notin aborted
                  THEN aborted \cup {controller} ELSE aborted
    /\ controller' = tok

\* variant that applies every settled load
LoadEndAlways(p, out) ==
    /\ pr' = 0
    /\ resolved' = TRUE
    /\ latest' = IF out.kind = "value" THEN out.value ELSE latest
    /\ state' = IF out.kind = "error" THEN "errored" ELSE "ready"
    /\ error' = IF out.kind = "error" THEN out.err ELSE NoError
\* createResource's loadEnd(p, v, error): only the load in progress is applied
LoadEnd(p, out) ==
    IF pr = p
    THEN /\ pr' = 0
         /\ resolved' = TRUE
         /\ latest' = IF out.kind = "value" THEN out.value ELSE latest
         /\ state' = IF out.kind = "error" THEN "errored" ELSE "ready"
         /\ error' = IF out.kind = "error" THEN out.err ELSE NoError
    ELSE UNCHANGED resVars

\* variant that does not record the new load as the one in progress
LoadNoTrack(a) ==
    LET c == Len(cycles) + 1
    IN  /\ Signal(c)
        /\ cycles' = Append(cycles, FetcherStart(a, c))
        /\ pr' = pr
        /\ state' = IF resolved THEN "refreshing" ELSE "pending"
        /\ UNCHANGED <<latest, error, resolved, lastSettled>>
\* createResource's load(): run the fetcher on the new source value
Load(a) ==
    LET c == Len(cycles) + 1
    IN  /\ Signal(c)
        /\ cycles' = Append(cycles, FetcherStart(a, c))
        /\ pr' = c
        /\ state' = IF resolved THEN "refreshing" ELSE "pending"
        /\ UNCHANGED <<latest, error, resolved, lastSettled>>

\* variant that reads resource.latest in every state
isFollowedStale(did) ==
    \E k \in 1..Len(latest) : latest[k] = did
\* createSelector of line 78-81
isFollowed(did) ==
    LET array == IF state = "ready" THEN latest ELSE << >>
    IN  \E k \in 1..Len(array) : array[k] = did

---------------------------------------------------------------------------
(* Actions of the controller *)

\* handleSubmit (App.tsx:83-90); setActor notifies only when the value changes
handleSubmit(raw) ==
    /\ nsubmit < MaxSubmit
    /\ nsubmit' = nsubmit + 1
    /\ LET a == StripAt(raw)
       IN  IF a = actor
           THEN UNCHANGED <<actor, state, latest, error, resolved, pr, controller,
                            aborted, cycles, lastSettled>>
           ELSE /\ actor' = a
                /\ Load(a)
    /\ UNCHANGED <<members, chunkVars>>

\* the fetcher promise of cycle c settles with out
Settle(c, cy, out) ==
    /\ cycles' = [cycles EXCEPT ![c] = [cy EXCEPT !.pc = "done", !.outcome = out]]
    /\ lastSettled' = c
    /\ LoadEnd(c, out)

\* resolveHandle of cycle c answers { did: d }
ResolveOk(c, d) ==
    /\ cycles[c].pc = "resolve"
    /\ cycles' = [cycles EXCEPT ![c] = AfterResolve(cycles[c], d)]
    /\ UNCHANGED <<members, actor, resVars, controller, aborted, lastSettled, nsubmit,
                   chunkVars>>

\* resolveHandle of cycle c rejects with e: the fetcher throws at line 46
ResolveFail(c, e) ==
    /\ cycles[c].pc = "resolve"
    /\ e \in Failures(cycles[c].signal)
    /\ Settle(c, cycles[c], [kind |-> "error", value |-> << >>, err |-> e])
    /\ UNCHANGED <<members, actor, controller, aborted, nsubmit, chunkVars>>

\* getRelationships call k of cycle c answers r; Promise.all resolves on the last one.
\* (Once Promise.all has rejected, the answers of the calls still in flight are
\* dropped by Promise.all and change nothing: they are not steps of the model.)
BatchOk(c, k, r) ==
    /\ cycles[c].pc = "all"
    /\ k \in 1..Len(cycles[c].batches)
    /\ cycles[c].batches[k].st = "inflight"
    /\ LET cy == [cycles[c] EXCEPT !.batches[k] = [st |-> "ok", data |-> r, err |-> NoError],
                                   !.arrived = Append(cycles[c].arrived, k)]
       IN  IF AllOk(cy.batches)
           THEN Settle(c, cy, [kind |-> "value", value |-> Followed(DataOf(cy.batches)),
                               err |-> NoError])
           ELSE /\ cycles' = [cycles EXCEPT ![c] = cy]
                /\ UNCHANGED <<resVars, lastSettled>>
    /\ UNCHANGED <<members, actor, controller, aborted, nsubmit, chunkVars>>

\* getRelationships call k of cycle c rejects with e; Promise.all rejects on the first one
BatchFail(c, k, e) ==
    /\ cycles[c].pc = "all"
    /\ k \in 1..Len(cycles[c].batches)
    /\ cycles[c].batches[k].st = "inflight"
    /\ e \in Failures(cycles[c].signal)
    /\ LET cy == [cycles[c] EXCEPT !.batches[k] = [st |-> "failed", data |-> << >>, err |-> e],
                                   !.arrived = Append(cycles[c].arrived, k)]
       IN  Settle(c, cy, [kind |-> "error", value |-> << >>, err |-> e])
    /\ UNCHANGED <<members, actor, controller, aborted, nsubmit, chunkVars>>

\* a remote call of cycle c completes
Complete(c) ==
    /\ c \in 1..Len(cycles)
    /\ \/ \E d \in ResolvedDids : ResolveOk(c, d)
       \/ \E e \in Failures(cycles[c].signal) : ResolveFail(c, e)
       \/ \E k \in 1..Len(cycles[c].batches), r \in Responses : BatchOk(c, k, r)
       \/ \E k \in 1..Len(cycles[c].batches), e \in Failures(cycles[c].signal) :
              BatchFail(c, k, e)

CtlInit ==
    /\ actor = Undefined
    /\ state = "unresolved"
    /\ latest = << >>
    /\ error = NoError
    /\ resolved = FALSE
    /\ pr = 0
    /\ controller = 0
    /\ aborted = {}
    /\ cycles = << >>
    /\ lastSettled = 0
    /\ nsubmit = 0

Init ==
    /\ members \in Rosters
    /\ CtlInit
    /\ arr = << >> /\ size = 1 /\ i = 0 /\ chunks = << >> /\ cpc = "idle"

Next ==
    \/ \E raw \in RawInputs : handleSubmit(raw)
    \/ \E c \in 1..Len(cycles), d \in ResolvedDids : ResolveOk(c, d)
    \/ \E c \in 1..Len(cycles) : \E e \in Failures(cycles[c].signal) : ResolveFail(c, e)
    \/ \E c \in 1..Len(cycles) : \E k \in 1..Len(cycles[c].batches), r \in Responses :
           BatchOk(c, k, r)
    \/ \E c \in 1..Len(cycles) :
           \E k \in 1..Len(cycles[c].batches), e \in Failures(cycles[c].signal) :
               BatchFail(c, k, e)

Spec == Init /\ [][Next]_vars

\* The program as built: the roster is the 16 members of App.tsx:14-31
FairInit ==
    /\ members = Roster(16)
    /\ CtlInit
    /\ arr = << >> /\ size = 1 /\ i = 0 /\ chunks = << >> /\ cpc = "idle"

\* every issued remote call eventually completes
FairSpec == FairInit /\ [][Next]_vars /\ \A c \in 1..MaxSubmit : WF_vars(Complete(c))

---------------------------------------------------------------------------
(* chunked (App.tsx:189-197), one loop iteration per step *)

RECURSIVE SeqsOfLen(_, _)
SeqsOfLen(S, n) ==
    IF n = 0 THEN { << >> }
    ELSE { Append(q, x) : q \in SeqsOfLen(S, n - 1), x \in S }

SeqsUpTo(S, n) == UNION { SeqsOfLen(S, k) : k \in 0..n }

\* the call chunked(arr, size), before the first test of the loop
ChunkInit ==
    /\ members = Roster(16)
    /\ CtlInit
    /\ arr \in SeqsUpTo({1, 2}, MaxLen) \cup { OthersOf(r) : r \in Rosters }
    /\ size \in (1..MaxSize) \cup {BatchSize}
    /\ i = 0
    /\ chunks = << >>
    /\ cpc = "loop"

\* i < il: chunks.push(arr.slice(i, i + size)); i += size
ChunkStep ==
    /\ cpc = "loop"
    /\ i < Len(arr)
    /\ chunks' = Append(chunks, ChunkBody(arr, size, i))
    /\ i' = i + size
    /\ UNCHANGED <<arr, size, cpc, ctlVars>>

\* i >= il: return chunks
ChunkReturn ==
    /\ cpc = "loop"
    /\ i >= Len(arr)
    /\ cpc' = "return"
    /\ UNCHANGED <<arr, size, i, chunks, ctlVars>>

ChunkNext == ChunkStep \/ ChunkReturn

SpecChunk == ChunkInit /\ [][ChunkNext]_vars

---------------------------------------------------------------------------
(* Vocabulary of the properties *)

Cur     == Len(cycles)                         \* the most recently started cycle
Idle    == state = "unresolved"
Pending == state \in {"pending", "refreshing"}  \* both render "Loading..."
Ready   == state = "ready"
Errored == state = "errored"

IsDone(c)    == cycles[c].pc = "done"
Reflects(c)  ==
    \/ cycles[c].outcome.kind = "value" /\ Ready /\ latest = cycles[c].outcome.value
    \/ cycles[c].outcome.kind = "error" /\ Errored /\ error = cycles[c].outcome.err
Contains(q, x) == \E k \in 1..Len(q) : q[k] = x

ResolveCallsOf(c) == SelectSeq(cycles[c].calls,
                        LAMBDA call : call.nsid = "com.atproto.identity.resolveHandle")
BatchCallsOf(c)   == SelectSeq(cycles[c].calls,
                        LAMBDA call : call.nsid = "app.bsky.graph.getRelationships")
CeilDiv(n, d) == (n + d - 1) \div d
MemberDids == {1, 2, 31}

\* C1: whenever the most recently started cycle B has settled, the lookup state is
\* B's outcome (Ready with B's result or Errored with B's error), whatever the
\* earlier cycles did and in whatever order they settled; while B has not settled
\* the state is Pending, so no earlier cycle's result or error is shown.
C1_Supersession ==
    Cur > 0 =>
        /\ IsDone(Cur) => Reflects(Cur)
        /\ ~IsDone(Cur) => Pending

\* cycle 1 settled after cycle 2 with a result, and the state shows another result, cycle 2's
C1_Witness ==
    /\ Cur = 2
    /\ IsDone(1) /\ IsDone(2) /\ lastSettled = 1
    /\ cycles[1].outcome.kind = "value"
    /\ cycles[2].outcome.kind = "value"
    /\ cycles[1].outcome.value # cycles[2].outcome.value
    /\ Ready /\ latest = cycles[2].outcome.value

\* C2: isFollowed(d) is true iff the state is Ready and d is in the result of the
\* current cycle; it is false in Idle, Pending and Errored.
C2_IsMember ==
    \A d \in MemberDids :
        /\ isFollowed(d) <=>
              (Ready /\ Cur > 0 /\ cycles[Cur].outcome.kind = "value"
                     /\ Contains(cycles[Cur].outcome.value, d))
        /\ (Idle \/ Pending \/ Errored) => ~isFollowed(d)

\* a new cycle is pending after an earlier one was Ready with a result containing member 1
C2_Witness ==
    /\ state = "refreshing"
    /\ Contains(latest, 1)
    /\ cycles[1].outcome.kind = "value"
    /\ ~isFollowed(1)

\* C3: every submit begins a new lookup cycle on the stripped input and moves the
\* controller to Pending, from any state and for any input.
C3_EverySubmitBeginsCycle ==
    [][nsubmit' # nsubmit =>
          /\ Len(cycles') = Len(cycles) + 1
          /\ cycles'[Len(cycles')].actor = actor'
          /\ state' \in {"pending", "refreshing"}]_vars

\* C4: every cycle has its own token; the only token not signalled is the one of the
\* most recently started cycle; a step of a cycle whose token is signalled leaves the
\* lookup state as it is.
C4_Tokens ==
    /\ [](/\ controller = Cur
          /\ \A c \in 1..Cur :
                /\ cycles[c].signal = c
                /\ \A k \in 1..Len(cycles[c].calls) : cycles[c].calls[k].signal = c
                /\ c \notin aborted => c = Cur)
    /\ [][\A c \in 1..Cur :
             (c \in aborted /\ cycles'[c] # cycles[c])
                 => UNCHANGED <<state, latest, error>>]_vars

\* cycle 1, superseded, has settled with a result while cycle 2 is pending
C4_Witness ==
    /\ Cur = 2
    /\ 1 \in aborted /\ 2 \notin aborted
    /\ cycles[1].outcome.kind = "value"
    /\ ~IsDone(2)
    /\ Pending

\* C5: for the cycle that is not superseded: Ready only if the resolve step (when
\* performed) and every batch query succeeded; a failed resolve issues no
\* relationship query and gives Errored with that error; a failed batch query gives
\* Errored with that query's error, the only failure the cycle has seen; the value
\* held is never a partial result.
C5_Failures ==
    /\ Cur > 0 /\ IsDone(Cur) =>
          LET cy == cycles[Cur] IN
          /\ Ready => /\ cy.outcome.kind = "value"
                      /\ cy.did # NoDid
                      /\ Len(cy.batches) = Len(chunked(members, BatchSize))
                      /\ \A k \in 1..Len(cy.batches) : cy.batches[k].st = "ok"
          /\ cy.did = NoDid =>
                /\ BatchCallsOf(Cur) = << >>
                /\ Errored /\ error = cy.outcome.err /\ error # NoError
          /\ \A k \in 1..Len(cy.batches) :
                cy.batches[k].st = "failed" =>
                    /\ Errored /\ error = cy.batches[k].err
                    /\ cy.arrived[Len(cy.arrived)] = k
                    /\ \A j \in 1..Len(cy.batches) : j # k => cy.batches[j].st # "failed"
    /\ \/ latest = << >>
       \/ \E c \in 1..Cur :
             /\ cycles[c].outcome.kind = "value"
             /\ \A k \in 1..Len(cycles[c].batches) : cycles[c].batches[k].st = "ok"
             /\ latest = cycles[c].outcome.value

\* of two batches the first succeeded with kept members, the second failed: Errored
C5_Witness ==
    /\ Cur = 1
    /\ Len(cycles[1].batches) = 2
    /\ cycles[1].batches[1].st = "ok"
    /\ Followed(<<cycles[1].batches[1].data>>) # << >>
    /\ cycles[1].batches[2].st = "failed"
    /\ Errored /\ error = cycles[1].batches[2].err

\* C6: a cycle that reaches the aggregation has issued exactly one getRelationships
\* call per batch of the roster, ceil(N/30) calls (2 of sizes 30 and 15 for N = 45,
\* 1 for N = 16), all of them before any has completed, each with the cycle's did
\* and token and with that batch's member identifiers as others; the result exists
\* only when all have completed and is the same for every completion order.
C6_Batching ==
    \A c \in 1..Cur :
        LET cy == cycles[c]
            bc == BatchCallsOf(c)
            n  == Len(members)
        IN  /\ cy.did = NoDid => bc = << >>
            /\ cy.did # NoDid =>
                  /\ Len(bc) = CeilDiv(n, BatchSize)
                  /\ Len(cy.batches) = Len(bc)
                  /\ n = 45 => Len(bc) = 2 /\ Len(bc[1].others) = 30 /\ Len(bc[2].others) = 15
                  /\ n = 16 => Len(bc) = 1 /\ Len(bc[1].others) = 16
                  /\ \A k \in 1..Len(bc) :
                        /\ bc[k].actor = cy.did
                        /\ bc[k].signal = cy.signal
                        /\ bc[k].others =
                              [j \in 1..Len(bc[k].others) |-> members[(k - 1) * BatchSize + j][1]]
            /\ cy.outcome.kind = "value" =>
                  /\ Len(cy.arrived) = Len(cy.batches)
                  /\ \A k \in 1..Len(cy.batches) : cy.batches[k].st = "ok"
                  /\ cy.outcome.value = Followed(DataOf(cy.batches))

\* two batches, the second answered before the first, and the result is there
C6_Witness ==
    /\ Cur = 1
    /\ cycles[1].arrived = <<2, 1>>
    /\ cycles[1].outcome.kind = "value"
    /\ cycles[1].batches[1].data # cycles[1].batches[2].data
    /\ Ready

\* C7: a cycle whose actor starts with 'did:' issues no resolveHandle call and uses
\* the actor as the subject of every relationship query; any other cycle issues
\* exactly one resolveHandle call, first, with the actor as handle, issues
\* relationship queries only once that call has answered, with the answered did.
C7_Resolver ==
    \A c \in 1..Cur :
        LET cy == cycles[c]
            bc == BatchCallsOf(c)
        IN  IF StartsWithDid(cy.actor)
            THEN /\ ResolveCallsOf(c) = << >>
                 /\ bc # << >>
                 /\ \A k \in 1..Len(bc) : bc[k].actor = cy.actor
            ELSE /\ Len(ResolveCallsOf(c)) = 1
                 /\ cy.calls[1].nsid = "com.atproto.identity.resolveHandle"
                 /\ cy.calls[1].actor = cy.actor
                 /\ cy.pc = "resolve" => bc = << >>
                 /\ cy.did = NoDid => bc = << >>
                 /\ \A k \in 1..Len(bc) : bc[k].actor = cy.did /\ cy.did \in ResolvedDids

\* a did: cycle in its aggregation, and a handle cycle resolved to another did
C7_Witness ==
    /\ Cur = 2
    /\ StartsWithDid(cycles[1].actor) /\ cycles[1].pc = "all"
    /\ ~StartsWithDid(cycles[2].actor) /\ cycles[2].pc = "all"
    /\ cycles[2].did # cycles[1].did

IsFollowing(rec) ==
    rec.type = "app.bsky.graph.defs#relationship" /\ rec.followedBy = "true"
KeptOf(resp) ==
    LET sel == SelectSeq(resp, IsFollowing) IN [k \in 1..Len(sel) |-> sel[k].did]
RECURSIVE KeptOfAll(_)
KeptOfAll(resps) ==
    IF resps = << >> THEN << >> ELSE KeptOf(Head(resps)) \o KeptOfAll(Tail(resps))

\* C8: a result is exactly the dids of the records of all batch answers that have
\* the relationship shape and followedBy true, in the order of the answers.
C8_Filtering ==
    /\ \A c \in 1..Cur :
          cycles[c].outcome.kind = "value" =>
              cycles[c].outcome.value = KeptOfAll(DataOf(cycles[c].batches))
    /\ Ready => Cur > 0 /\ latest = KeptOfAll(DataOf(cycles[Cur].batches))

\* two answers mixing kept and dropped records, kept in answer order
C8_Witness ==
    /\ Ready
    /\ Len(cycles[Cur].batches) = 2
    /\ latest = <<2, 1, 31>>

RECURSIVE Concat(_)
Concat(qs) == IF qs = << >> THEN << >> ELSE Head(qs) \o Concat(Tail(qs))

\* C9: for every sequence and positive size chunked ends after at most Len(arr)
\* iterations and returns chunks, in order, whose concatenation is the argument;
\* every chunk but the last has length size, the last between 1 and size.
C9_Chunked ==
    /\ i = size * Len(chunks)
    /\ Len(chunks) <= Len(arr)
    /\ cpc = "return" =>
          /\ chunks = chunked(arr, size)
          /\ Len(chunks) = CeilDiv(Len(arr), size)
          /\ Concat(chunks) = arr
          /\ \A k \in 1..Len(chunks) :
                /\ Len(chunks[k]) >= 1
                /\ Len(chunks[k]) <= size
                /\ k < Len(chunks) => Len(chunks[k]) = size

\* a returned chunking whose last chunk is shorter than the others
C9_Witness ==
    /\ cpc = "return"
    /\ Len(chunks) = 2
    /\ Len(chunks[1]) = size
    /\ Len(chunks[2]) < size

=============================================================================
